---- MODULE Spec2Model ----
(***************************************************************************)
(* gait: a CLI that drafts a commit message from the staged diff with a    *)
(* language model, lets the user edit it, and runs `git commit`.           *)
(*                                                                         *)
(* One behaviour of this module is one invocation of the CLI (bin/gait,    *)
(* the main flow or the `commit` sub-command), optionally followed by a    *)
(* second invocation `gait commit <same flags>` in the same environment,   *)
(* which is how the help text's "same as gait" is compared.                *)
(* ListSpec, CommitSpec and RaceSpec are specifications of their own: a    *)
(* call of getAllChangedFiles on any two git listings, a call of commit()  *)
(* with any message, and a run beside another process that uses the index. *)
(*                                                                         *)
(* Text is a sequence of characters; "sp" is a blank, "nl" a line break,   *)
(* "dq" a double quote, "bs" a backslash.  A command-line value is the     *)
(* sequence of its '/'-separated segments, <<>> when the option is absent  *)
(* and <<"">> when it is the empty string.                                 *)
(***************************************************************************)
EXTENDS Integers, Sequences, FiniteSets, TLC

(***************************************************************************)
(* Bounds                                                                  *)
(***************************************************************************)
\* At most this many arguments (options, or the word `init`) on the command line.
MaxFlags == 1

\* a git listing handed to getAllChangedFiles on its own has at most this many lines
MaxLines == 2

\* a message handed to commit() on its own has at most this many characters
MaxMsgLen == 4

\* another process changes the git index at most this many times during a run
MaxExternal == 1

(***************************************************************************)
(* Text helpers (JavaScript String.prototype.trim / split / join)          *)
(***************************************************************************)
IsSpace(c) == c \in {"sp", "nl"}

RECURSIVE TrimLeft(_)
TrimLeft(s) ==
  IF s # <<>> /\ IsSpace(Head(s)) THEN TrimLeft(Tail(s)) ELSE s

RECURSIVE TrimRight(_)
TrimRight(s) ==
  IF s # <<>> /\ IsSpace(s[Len(s)]) THEN TrimRight(SubSeq(s, 1, Len(s) - 1)) ELSE s

\* String.prototype.trim
Trim(s) == TrimRight(TrimLeft(s))

\* s.split('\n'): always at least one line
RECURSIVE SplitNL(_)
SplitNL(s) ==
  IF \A i \in 1..Len(s) : s[i] # "nl" THEN <<s>>
  ELSE LET k == CHOOSE i \in 1..Len(s) : s[i] = "nl" /\ \A j \in 1..(i - 1) : s[j] # "nl"
       IN  <<SubSeq(s, 1, k - 1)>> \o SplitNL(SubSeq(s, k + 1, Len(s)))

\* lines.join('\n')
RECURSIVE JoinNL(_)
JoinNL(ls) ==
  IF ls = <<>> THEN <<>>
  ELSE IF Len(ls) = 1 THEN ls[1]
  ELSE ls[1] \o <<"nl">> \o JoinNL(Tail(ls))

NonBlank(l) == Trim(l) # <<>>

\* raw.split('\n').filter(l => l.trim()).join('\n') of the trimmed response
Normalize(raw) == JoinNL(SelectSeq(SplitNL(Trim(raw)), NonBlank))

\* JavaScript truthiness of a command-line value
Truthy(v) == v # <<>> /\ v # <<"">>

\* [provider, model] = value.split('/'): a missing part is undefined (falsy, as "")
Seg(v, i) == IF i <= Len(v) THEN v[i] ELSE ""

(***************************************************************************)
(* The environment's value sets                                            *)
(***************************************************************************)
Files == {"a", "b"}

Absent == <<>>

ModelValues ==
  { <<"openai", "gpt4">>, <<"ollama", "mistral">>, <<"bad">>,
    <<"acme", "m1">>, <<"constructor", "m1">> }

\* the values of -M: also `/m1`, `openai/` and `openai/gpt4/turbo`
SetModelValues ==
  ModelValues \cup { <<"", "m1">>, <<"openai", "">>, <<"openai", "gpt4", "turbo">> }

ListValues == { <<"">>, <<"x">> }

NoFlags ==
  [h |-> FALSE, i |-> FALSE, f |-> FALSE, n |-> FALSE, d |-> FALSE, s |-> FALSE,
   l |-> Absent, M |-> Absent, m |-> Absent]

AllFlags ==
  [h : BOOLEAN, i : BOOLEAN, f : BOOLEAN, n : BOOLEAN, d : BOOLEAN, s : BOOLEAN,
   l : {Absent} \cup ListValues, M : {Absent} \cup SetModelValues,
   m : {Absent} \cup ModelValues]

B2N(b) == IF b THEN 1 ELSE 0

\* number of arguments on the command line after an optional `commit`
NumArgs(word, a) ==
  B2N(word = "init") + B2N(a.h) + B2N(a.i) + B2N(a.f) + B2N(a.n) + B2N(a.d) + B2N(a.s)
  + B2N(a.l # Absent) + B2N(a.M # Absent) + B2N(a.m # Absent)

\* the config file ~/.gait/gait.json: absent, not JSON, JSON null, or an object
CfgAbsent  == [kind |-> "absent",  ap |-> "", prov |-> <<>>, legacy |-> ""]
CfgGarbage == [kind |-> "garbage", ap |-> "", prov |-> <<>>, legacy |-> ""]
CfgNull    == [kind |-> "null",    ap |-> "", prov |-> <<>>, legacy |-> ""]
CfgObj(ap, prov, legacy) == [kind |-> "obj", ap |-> ap, prov |-> prov, legacy |-> legacy]
CfgEmpty   == CfgObj("", <<>>, "")
CfgOllama  == CfgObj("ollama", "ollama" :> "llama3", "")
CfgOpenai  == CfgObj("openai", "openai" :> "gpt4", "")

InitialConfigs == { CfgAbsent, CfgGarbage, CfgNull, CfgEmpty, CfgOllama, CfgOpenai }


Providers == {"ollama", "openai", "anthropic", "google", "cohere", "mistral"}

\* names that providerMap[name] finds on Object.prototype
InheritedNames == {"constructor"}

\* outcomes of the external world, drawn when the program first observes them
EnvDom(k) ==
  CASE k = "rejectExit"  -> {0, 1}
    [] k = "models"      -> { {}, {"mistral"} }
    [] k = "http"        -> {"fail", "badbody", "nofield", "ok"}
    [] k = "cli"         -> {"error", "ok"}
    [] k = "cloud"       -> {"throw", "ok"}
    [] k = "raw"         -> { <<"x">>, <<"sp", "x", "nl", "sp", "nl", "y", "nl">> }
    [] k = "answer"      -> { <<>>, <<"sp", "e">> }
    [] k = "selection"   -> SUBSET Files
    [] OTHER             -> BOOLEAN

(***************************************************************************)
(* State                                                                   *)
(***************************************************************************)
VARIABLES
  word,       \* first command-line word: "" (none), "init" or "commit"
  args,       \* the options of the command line
  cfgFile,    \* content of ~/.gait/gait.json
  staged,     \* paths with staged changes (git index)
  unstaged,   \* paths with changes in the work tree that are not staged
  head,       \* paths recorded by the `git commit` of this run
  pc,         \* position of the run in bin/gait
  exitCode,   \* exit status of the process, -1 while it runs
  crashed,    \* an exception left main() uncaught (unhandled rejection)
  config,     \* the config object held by main()
  diff,       \* result of getDiff()
  prompt,     \* result of buildPrompt(diff)
  suggested,  \* the generated message
  commitMsg,  \* the message handed to commit()
  sent,       \* the generation call: provider, model and prompt
  committed,  \* the message `git commit` was run with
  gitCmd,     \* the command line commit() handed to the shell
  trace,      \* the steps and external effects of the run, in order
  out,        \* the messages printed by the run
  env,        \* the outcomes of the external world observed so far
  world0,     \* the config file and git state the invocation started in, and the
              \* config file the sequence of invocations started with
  first,      \* the finished run `gait <flags>` that `gait commit <flags>` is compared with
  listing,    \* the two git listings handed to a call of getAllChangedFiles on its own
  allFiles,   \* the array that call returned
  external    \* the number of changes another process made to the index during the run

vars == <<word, args, cfgFile, staged, unstaged, head, pc, exitCode, crashed, config, diff,
          prompt, suggested, commitMsg, sent, committed, gitCmd, trace, out, env, world0,
          first, listing, allFiles, external>>

inv   == <<word, args, world0, first, listing, allFiles, external>>
world == <<cfgFile, staged, unstaged, head>>
gitCall == <<committed, gitCmd>>
data  == <<config, diff, prompt, suggested, commitMsg, sent, gitCall>>

None == <<>>
NoConfig == [kind |-> "none", ap |-> "", prov |-> <<>>, legacy |-> ""]
NoCall == [provider |-> "", model |-> "", prompt |-> <<>>, made |-> FALSE]

NoListing == [staged |-> <<>>, unstaged |-> <<>>]

Fresh ==
  /\ pc = "parse" /\ exitCode = -1 /\ crashed = FALSE
  /\ config = NoConfig /\ diff = None /\ prompt = None /\ suggested = None
  /\ commitMsg = None /\ sent = NoCall /\ committed = None /\ gitCmd = None /\ head = {}
  /\ trace = <<>> /\ out = {}

Init ==
  /\ word \in {"", "init", "commit"}
  /\ args \in AllFlags
  /\ NumArgs(word, args) <= MaxFlags
  /\ cfgFile \in InitialConfigs
  /\ staged \in SUBSET Files
  \* only the interactive selection (-f) looks at the changes that are not staged
  /\ unstaged \in (IF args.f THEN SUBSET Files ELSE {{}})
  /\ world0 = [cfg |-> cfgFile, staged |-> staged, unstaged |-> unstaged, start |-> cfgFile]
  /\ env = <<>>
  /\ first = [done |-> FALSE, trace |-> <<>>, exitCode |-> -1, crashed |-> FALSE]
  /\ listing = NoListing /\ allFiles = <<>> /\ external = 0
  /\ Fresh

(***************************************************************************)
(* Helpers of the actions                                                  *)
(***************************************************************************)
Pick(e, k, S) == IF k \in DOMAIN e THEN {e[k]} ELSE S
Sample(e, k) == Pick(e, k, EnvDom(k))
Learn(e, k, v) == IF k \in DOMAIN e THEN e ELSE e @@ (k :> v)

\* the run goes on at p after the steps evs
Step(p, evs) ==
  /\ pc' = p /\ trace' = trace \o evs
  /\ UNCHANGED <<exitCode, crashed>>

\* process.exit(code) after the steps evs, having printed msgs
Exit(code, evs, msgs) ==
  /\ pc' = "exit" /\ exitCode' = code /\ trace' = trace \o evs
  /\ out' = out \cup msgs
  /\ UNCHANGED crashed

\* An exception leaves main() uncaught after the steps evs: the promise of the
\* async function is rejected with no handler.  Node >= 15 ends the process with
\* status 1, older versions print a warning and end with status 0.
Crash(e, evs) ==
  \E c \in Sample(e, "rejectExit") :
    /\ pc' = "exit" /\ exitCode' = c /\ crashed' = TRUE
    /\ trace' = trace \o evs
    /\ env' = Learn(e, "rejectExit", c)
    /\ UNCHANGED out

(***************************************************************************)
(* lib/config.js and lib/init.js                                           *)
(***************************************************************************)
\* loadConfig(): the parsed file, or the defaults when it is absent or not JSON
loadConfig(file) ==
  IF file.kind \in {"absent", "garbage"} THEN CfgOllama ELSE file

\* config.activeProvider && config.providers?.[config.activeProvider]?.model
Configured(c) == c.ap # "" /\ c.ap \in DOMAIN c.prov /\ c.prov[c.ap] # ""

\* needsOnboarding(), for a config file whose content is not JSON null
needsOnboarding(file) ==
  IF file.kind = "absent" THEN TRUE ELSE ~Configured(loadConfig(file))

\* createEmptyConfig writing text that is not JSON
createEmptyConfig_NotJson(file) == IF file.kind = "absent" THEN CfgGarbage ELSE file

\* createEmptyConfig(): writes the default providers when there is no file
createEmptyConfig(file) == IF file.kind = "absent" THEN CfgOllama ELSE file

\* the steps of a call of loadConfig() on this file
LoadEv(file) == <<"loadConfig">>

(***************************************************************************)
(* bin/gait: flags, help, onboarding                                       *)
(***************************************************************************)
Running == pc # "exit"

\* minimist(rawArgs, ...) after the sub-command test
ParseArgs ==
  /\ pc = "parse"
  /\ Step("help", <<"parse">>)
  /\ UNCHANGED <<inv, world, data, out, env>>

\* the help test missing from the commit sub-command
ShowHelp_MainOnly ==
  /\ pc = "help"
  /\ IF args.h /\ word # "commit"
       THEN Exit(0, <<>>, {"Help"})
       ELSE Step(IF word = "commit" THEN "select" ELSE "onboard", <<>>) /\ UNCHANGED out
  /\ UNCHANGED <<inv, world, data, env>>

\* if (argv.help || argv.h) { showHelp(); process.exit(0); }
ShowHelp ==
  /\ pc = "help"
  /\ IF args.h
       THEN Exit(0, <<>>, {"Help"})
       ELSE Step(IF word = "commit" THEN "select" ELSE "onboard", <<>>) /\ UNCHANGED out
  /\ UNCHANGED <<inv, world, data, env>>

\* the steps of evaluating `init || needsOnboarding()`
NeedEv == IF ~args.i /\ cfgFile.kind # "absent" THEN LoadEv(cfgFile) ELSE <<>>

\* init || needsOnboarding() is false
OnboardSkip ==
  /\ pc = "onboard"
  /\ ~args.i /\ cfgFile.kind # "null" /\ ~needsOnboarding(cfgFile)
  /\ Step("checkgit", NeedEv)
  /\ UNCHANGED <<inv, world, data, out, env>>

\* needsOnboarding() reads config.activeProvider of a config that is null
OnboardNeedThrows ==
  /\ pc = "onboard"
  /\ ~args.i /\ cfgFile.kind = "null"
  /\ Crash(env, NeedEv)
  /\ UNCHANGED <<inv, world, data>>

Onboards == pc = "onboard" /\ (args.i \/ (cfgFile.kind # "null" /\ needsOnboarding(cfgFile)))

\* runOnboarding(): createEmptyConfig() throws
OnboardCreateFails ==
  /\ Onboards
  /\ \E ok \in Sample(env, "createOk") :
       /\ ~ok
       /\ env' = Learn(env, "createOk", ok)
       /\ Exit(1, NeedEv \o <<"onboard">>, {"CreateConfigFailed"})
  /\ UNCHANGED <<inv, world, data>>

\* runOnboarding(): one of the two Ollama checks fails
OnboardCheckFails ==
  /\ Onboards
  /\ \E ok \in Sample(env, "createOk"), inst \in Sample(env, "installed"),
        run \in Sample(env, "running") :
       /\ ok /\ ~(inst /\ run)
       /\ env' = Learn(Learn(Learn(env, "createOk", ok), "installed", inst), "running", run)
       /\ cfgFile' = createEmptyConfig(cfgFile)
       /\ Exit(1, NeedEv \o <<"onboard">>
                   \o (IF cfgFile.kind = "absent" THEN <<"writeConfig">> ELSE <<>>),
               {"FixIssues"})
  /\ UNCHANGED <<inv, staged, unstaged, head, data>>

\* where main() goes on when runOnboarding() has returned
AfterOnboarding(evs, msgs) ==
  IF args.i THEN Exit(0, evs, msgs) ELSE Step("checkgit", evs) /\ out' = out \cup msgs

\* the steps of runOnboarding() up to its loadConfig()
OnboardEv ==
  NeedEv \o <<"onboard">> \o (IF cfgFile.kind = "absent" THEN <<"writeConfig">> ELSE <<>>)
  \o LoadEv(createEmptyConfig(cfgFile))

\* runOnboarding(): the checks pass and loadConfig() returns null
OnboardLoadThrows ==
  /\ Onboards
  /\ cfgFile.kind = "null"
  /\ \E ok \in Sample(env, "createOk"), inst \in Sample(env, "installed"),
        run \in Sample(env, "running") :
       /\ ok /\ inst /\ run
       /\ Crash(Learn(Learn(Learn(env, "createOk", ok), "installed", inst), "running", run),
                OnboardEv)
  /\ UNCHANGED <<inv, world, data>>

\* runOnboarding(): already configured, and the user keeps the configuration
OnboardKeep ==
  /\ Onboards
  /\ cfgFile.kind # "null"
  /\ Configured(loadConfig(createEmptyConfig(cfgFile)))
  /\ \E ok \in Sample(env, "createOk"), inst \in Sample(env, "installed"),
        run \in Sample(env, "running"), re \in Sample(env, "reconfigure") :
       /\ ok /\ inst /\ run /\ ~re
       /\ env' = Learn(Learn(Learn(Learn(env, "createOk", ok), "installed", inst),
                             "running", run), "reconfigure", re)
       /\ cfgFile' = createEmptyConfig(cfgFile)
       /\ AfterOnboarding(OnboardEv \o <<"askReconfigure">>, {})
  /\ UNCHANGED <<inv, staged, unstaged, head, data, crashed>>

\* runOnboarding() reaches the model selection: no Ollama model is installed, or
\* the user selects one and the configuration is saved
OnboardConfigure ==
  /\ Onboards
  /\ cfgFile.kind # "null"
  /\ LET file == createEmptyConfig(cfgFile)
         c    == loadConfig(file)
     IN \E ok \in Sample(env, "createOk"), inst \in Sample(env, "installed"),
           run \in Sample(env, "running"),
           re \in (IF Configured(c) THEN Sample(env, "reconfigure") ELSE {TRUE}),
           ms \in Sample(env, "models"), saved \in Sample(env, "saveOk") :
          /\ ok /\ inst /\ run /\ re
          /\ LET e1 == Learn(Learn(Learn(env, "createOk", ok), "installed", inst),
                             "running", run)
                 e2 == IF Configured(c) THEN Learn(e1, "reconfigure", re) ELSE e1
                 e3 == Learn(e2, "models", ms)
                 ask == IF Configured(c) THEN <<"askReconfigure">> ELSE <<>>
             IN IF ms = {}
                  THEN /\ env' = e3
                       /\ cfgFile' = file
                       /\ Exit(1, OnboardEv \o ask \o <<"ollamaList">>, {"NoModels"})
                       /\ UNCHANGED crashed
                  ELSE \E sel \in Pick(e3, "selectedModel", ms) :
                         LET new == [c EXCEPT !.prov = ("ollama" :> sel) @@ c.prov,
                                              !.ap = "ollama", !.legacy = ""]
                         IN /\ env' = Learn(Learn(e3, "selectedModel", sel), "saveOk", saved)
                            /\ cfgFile' = IF saved THEN new ELSE file
                            /\ AfterOnboarding(OnboardEv \o ask
                                                 \o <<"ollamaList", "selectModel", "saveConfig">>,
                                               {"ConfigurationSaved"})
                            /\ UNCHANGED crashed
  /\ UNCHANGED <<inv, staged, unstaged, head, data>>

(***************************************************************************)
(* lib/git.js                                                              *)
(***************************************************************************)
\* git lists paths in sorted order
FileOrder == <<"a", "b">>

InSet(S) == [f \in Files |-> f \in S]

\* the paths of S as git lists them
Listing(S) == LET m == InSet(S) IN SelectSeq(FileOrder, LAMBDA f : m[f])

\* output of `git diff --name-status` for modified paths S: the lines, each split
\* at its tabs
NameStatus(S) == [i \in 1..Len(Listing(S)) |-> <<"M", Listing(S)[i]>>]

\* lines.forEach(line => { parts = line.split('\t'); if (parts.length >= 2) ... })
\* over the staged lines: parts[1] of each is pushed as 'staged'
StagedEntries(lines) ==
  LET has == [i \in 1..Len(lines) |-> Len(lines[i]) >= 2]
      idx == SelectSeq([i \in 1..Len(lines) |-> i], LAMBDA i : has[i])
  IN  [j \in 1..Len(idx) |-> [path |-> lines[idx[j]][2], status |-> "staged"]]

\* the same over the first n unstaged lines: parts[1] is pushed as 'unstaged' if
\* no entry pushed so far has that path
RECURSIVE WithUnstaged(_, _, _)
WithUnstaged(entries, lines, n) ==
  IF n = 0 THEN entries
  ELSE LET sofar == WithUnstaged(entries, lines, n - 1)
           parts == lines[n]
       IN  IF Len(parts) >= 2 /\ ~\E k \in 1..Len(sofar) : sofar[k].path = parts[2]
             THEN Append(sofar, [path |-> parts[2], status |-> "unstaged"])
             ELSE sofar

\* getAllChangedFiles() on the split lines of its two listings
ChangedFiles(stagedOutput, unstagedOutput) ==
  WithUnstaged(StagedEntries(stagedOutput), unstagedOutput, Len(unstagedOutput))

\* getAllChangedFiles() in a work tree whose changes are modifications: the staged
\* paths, then the unstaged paths not among them
getAllChangedFiles(st, un) == ChangedFiles(NameStatus(st), NameStatus(un))

Paths(all) == { all[i].path : i \in 1..Len(all) }

\* filesToStage without the filter on the status
filesToStage_AllSelected(all, selection) ==
  LET pick == [i \in 1..Len(all) |-> all[i].path \in selection]
      idx  == SelectSeq([i \in 1..Len(all) |-> i], LAMBDA i : pick[i])
  IN  [j \in 1..Len(idx) |-> all[idx[j]].path]

\* selectedFiles.filter(path => allFiles.find(f => f.path === path)?.status === 'unstaged')
filesToStage(all, selection) ==
  LET pick == [i \in 1..Len(all) |-> all[i].path \in selection /\ all[i].status = "unstaged"]
      idx  == SelectSeq([i \in 1..Len(all) |-> i], LAMBDA i : pick[i])
  IN  [j \in 1..Len(idx) |-> all[idx[j]].path]

AddKey(f) == IF f = "a" THEN "addOk_a" ELSE "addOk_b"
AddEv(f)  == IF f = "a" THEN "add_a" ELSE "add_b"

\* stageFiles(files): the number of `git add` commands run, the last of which
\* is the first that fails under okf (all of them when none fails)
AddsRun(files, okf) ==
  IF \A i \in 1..Len(files) : okf[files[i]] THEN Len(files)
  ELSE CHOOSE i \in 1..Len(files) : ~okf[files[i]] /\ \A j \in 1..(i - 1) : okf[files[j]]

RECURSIVE LearnAdds(_, _, _, _)
LearnAdds(e, files, n, okf) ==
  IF n = 0 THEN e
  ELSE Learn(LearnAdds(e, files, n - 1, okf), AddKey(files[n]), okf[files[n]])

\* output of `git diff --cached`: one line per staged path
GitDiffOutput(st) ==
  LET ls == Listing(st)
  IN  IF ls = <<>> THEN <<>> ELSE JoinNL([i \in 1..Len(ls) |-> <<ls[i]>>]) \o <<"nl">>

\* sh(cmd): the trimmed output of a command that succeeded
sh(output) == Trim(output)

\* hasStagedChanges with the test of the exit status inverted
hasStagedChanges_Inverted(st) == st = {}

\* hasStagedChanges(): `git diff --cached --quiet` ends with a status other than 0
hasStagedChanges(st) == st # {}

(***************************************************************************)
(* bin/gait: git checks and interactive file selection                     *)
(***************************************************************************)
\* the git check with its failure ignored
CheckGit_Ignored ==
  /\ pc = "checkgit"
  /\ \E v \in Sample(env, "gitVersionOk") :
       IF ~v
         THEN /\ env' = Learn(env, "gitVersionOk", v)
              /\ Step("staged", <<"gitVersion">>)
         ELSE \E r \in Sample(env, "revParseOk") :
                /\ env' = Learn(Learn(env, "gitVersionOk", v), "revParseOk", r)
                /\ Step("staged", <<"gitVersion", "revParse">>)
  /\ UNCHANGED <<inv, world, data, out>>

\* try { checkGit() } catch (e) { console.error(...); process.exit(1); }
CheckGit ==
  /\ pc = "checkgit"
  /\ \E v \in Sample(env, "gitVersionOk") :
       IF ~v
         THEN /\ env' = Learn(env, "gitVersionOk", v)
              /\ Exit(1, <<"gitVersion">>, {"GitError"})
         ELSE \E r \in Sample(env, "revParseOk") :
                /\ env' = Learn(Learn(env, "gitVersionOk", v), "revParseOk", r)
                /\ IF r THEN Step("staged", <<"gitVersion", "revParse">>) /\ UNCHANGED out
                        ELSE Exit(1, <<"gitVersion", "revParse">>, {"GitError"})
  /\ UNCHANGED <<inv, world, data>>

\* if (!interactiveSelect && !hasStagedChanges()) { ...; showHelp(); process.exit(0); }
CheckStaged ==
  /\ pc = "staged"
  /\ IF ~args.f /\ ~hasStagedChanges(staged)
       THEN Exit(0, <<"diffQuiet">>, {"NoStagedChanges", "Help"})
       ELSE /\ Step("select", IF args.f THEN <<>> ELSE <<"diffQuiet">>)
            /\ UNCHANGED out
  /\ UNCHANGED <<inv, world, data, env>>

\* if (interactiveSelect) is false
SelectSkip ==
  /\ pc = "select"
  /\ ~args.f
  /\ Step("loadcfg", <<>>)
  /\ UNCHANGED <<inv, world, data, out, env>>

\* getAllChangedFiles() throws: one of its two git commands fails
ListFilesFails ==
  /\ pc = "select"
  /\ args.f
  /\ \E c \in Sample(env, "nameStatusCachedOk") :
       IF ~c
         THEN Crash(Learn(env, "nameStatusCachedOk", c), <<"nameStatusCached">>)
         ELSE \E u \in Sample(env, "nameStatusOk") :
                /\ ~u
                /\ Crash(Learn(Learn(env, "nameStatusCachedOk", c), "nameStatusOk", u),
                         <<"nameStatusCached", "nameStatus">>)
  /\ UNCHANGED <<inv, world, data>>

ListOk(e) == TRUE \in Sample(e, "nameStatusCachedOk") /\ TRUE \in Sample(e, "nameStatusOk")
LearnList(e) == Learn(Learn(e, "nameStatusCachedOk", TRUE), "nameStatusOk", TRUE)

\* if (allFiles.length === 0) { ...; process.exit(0); }
NoChangedFiles ==
  /\ pc = "select"
  /\ args.f
  /\ ListOk(env)
  /\ getAllChangedFiles(staged, unstaged) = <<>>
  /\ env' = LearnList(env)
  /\ Exit(0, <<"nameStatusCached", "nameStatus">>, {"NoChangedFiles"})
  /\ UNCHANGED <<inv, world, data>>

\* the checkbox prompt, then stageFiles(filesToStage)
SelectFiles ==
  /\ pc = "select"
  /\ args.f
  /\ ListOk(env)
  /\ LET all == getAllChangedFiles(staged, unstaged)
         evs == <<"nameStatusCached", "nameStatus", "selectFiles">>
     IN /\ all # <<>>
        /\ \E sel \in Pick(env, "selection", SUBSET Paths(all)) :
             LET e1 == Learn(LearnList(env), "selection", sel)
             IN IF sel = {}
                  THEN /\ env' = e1
                       /\ Exit(0, evs, {"NoFilesSelected"})
                       /\ UNCHANGED <<staged, unstaged>>
                  ELSE \E okf \in [Files -> BOOLEAN] :
                         LET files == filesToStage(all, sel)
                             n     == AddsRun(files, okf)
                             added == { files[i] : i \in { j \in 1..n : okf[files[j]] } }
                             adds  == [i \in 1..n |-> AddEv(files[i])]
                             e2    == LearnAdds(e1, files, n, okf)
                         IN /\ \A i \in 1..n : okf[files[i]] \in Sample(e1, AddKey(files[i]))
                            /\ staged' = staged \cup added
                            /\ unstaged' = unstaged \ added
                            /\ IF \A i \in 1..n : okf[files[i]]
                                 THEN /\ env' = e2
                                      /\ Step("loadcfg", evs \o adds)
                                      /\ out' = out \cup {"Selected"}
                                 ELSE Crash(e2, evs \o adds)
  /\ UNCHANGED <<inv, cfgFile, head, data>>

(***************************************************************************)
(* bin/gait: configuration, model options                                  *)
(***************************************************************************)
\* const config = loadConfig();
LoadConfig ==
  /\ pc = "loadcfg"
  /\ config' = loadConfig(cfgFile)
  /\ Step(IF word = "commit" THEN "override" ELSE "setmodel", <<"loadConfig">>)
  /\ UNCHANGED <<inv, world, diff, prompt, suggested, commitMsg, sent, gitCall, out, env>>

\* config.activeProvider = provider; config.providers[provider] = { model };
withModel(c, provider, model) ==
  [c EXCEPT !.ap = provider, !.prov = (provider :> model) @@ c.prov]

\* if (setModel) is false
SetModelSkip ==
  /\ pc = "setmodel"
  /\ ~Truthy(args.M)
  /\ Step("list", <<>>)
  /\ UNCHANGED <<inv, world, data, out, env>>

\* if (setModel) { ...; saveConfig(config); ...; process.exit(0); }
SetModel ==
  /\ pc = "setmodel"
  /\ Truthy(args.M)
  /\ LET provider == Seg(args.M, 1)
         model    == Seg(args.M, 2)
     IN IF provider = "" \/ model = ""
          THEN /\ Exit(1, <<>>, {"FormatError"})
               /\ UNCHANGED <<config, cfgFile, env>>
          ELSE IF config.kind = "null"
            THEN Crash(env, <<>>) /\ UNCHANGED <<config, cfgFile>>
            ELSE \E saved \in Sample(env, "saveOk") :
                   /\ config' = withModel(config, provider, model)
                   /\ cfgFile' = IF saved THEN config' ELSE cfgFile
                   /\ env' = Learn(env, "saveOk", saved)
                   /\ Exit(0, <<"saveConfig">>, {"ModelSet"})
  /\ UNCHANGED <<inv, staged, unstaged, head, diff, prompt, suggested, commitMsg, sent,
                 gitCall>>

\* if (listModelsFlag) is false
ListModelsSkip ==
  /\ pc = "list"
  /\ ~Truthy(args.l)
  /\ Step("provider", <<>>)
  /\ UNCHANGED <<inv, world, data, out, env>>

\* if (listModelsFlag) { try { listModels() } catch (e) { ... } process.exit(0); }
ListModels ==
  /\ pc = "list"
  /\ Truthy(args.l)
  /\ \E ok \in Sample(env, "listOk") :
       /\ env' = Learn(env, "listOk", ok)
       /\ Exit(0, <<"ollamaList">>, IF ok THEN {"Models"} ELSE {"ListFailed"})
  /\ UNCHANGED <<inv, world, data>>

\* commit sub-command: if (modelArg) { ... } changes the config object in memory
ModelOverride ==
  /\ pc = "override"
  /\ LET provider == Seg(args.m, 1)
         model    == Seg(args.m, 2)
     IN IF ~Truthy(args.m)
          THEN Step("provider", <<>>) /\ UNCHANGED <<config, out, env>>
          ELSE IF provider = "" \/ model = ""
            THEN Exit(1, <<>>, {"FormatError"}) /\ UNCHANGED <<config, env>>
            ELSE IF config.kind = "null"
              THEN Crash(env, <<>>) /\ UNCHANGED config
              ELSE /\ config' = withModel(config, provider, model)
                   /\ Step("provider", <<>>)
                   /\ UNCHANGED <<out, env>>
  /\ UNCHANGED <<inv, world, diff, prompt, suggested, commitMsg, sent, gitCall>>

\* const provider = config.activeProvider || 'ollama';
activeProvider(c) == IF c.ap # "" THEN c.ap ELSE "ollama"

\* const providerConfig = config.providers?.[provider] || { model: 'llama3' };
providerModel(c) ==
  IF activeProvider(c) \in DOMAIN c.prov THEN c.prov[activeProvider(c)] ELSE "llama3"

\* Determine provider and model (and the debug output)
DetermineProvider ==
  /\ pc = "provider"
  /\ IF config.kind = "null"
       THEN Crash(env, <<>>) /\ UNCHANGED sent
       ELSE /\ sent' = [sent EXCEPT !.provider = activeProvider(config),
                                    !.model = providerModel(config)]
            /\ Step(IF word = "commit" THEN "diff" ELSE "show", <<>>)
            /\ out' = out \cup (IF args.d THEN {"Debug"} ELSE {})
            /\ UNCHANGED env
  /\ UNCHANGED <<inv, world, config, diff, prompt, suggested, commitMsg, gitCall>>

\* if (showStaged) { const stagedFiles = getStagedFiles(); ... }
ShowStaged ==
  /\ pc = "show"
  /\ IF ~args.s
       THEN Step("diff", <<>>) /\ UNCHANGED <<out, env>>
       ELSE \E ok \in Sample(env, "nameStatusCachedOk") :
              LET e1 == Learn(env, "nameStatusCachedOk", ok)
              IN IF ok
                   THEN /\ Step("diff", <<"nameStatusCached">>)
                        /\ out' = out \cup {"StagedFiles"}
                        /\ env' = e1
                   ELSE Crash(e1, <<"nameStatusCached">>)
  /\ UNCHANGED <<inv, world, data>>

(***************************************************************************)
(* bin/gait: diff, prompt, generation                                      *)
(***************************************************************************)
\* the last line of the prompt template of lib/prompt.js, which the diff follows
PromptTemplate == <<"Diff:", "nl">>

\* buildPrompt with the diff placed before the template
buildPrompt_DiffFirst(d) == d \o PromptTemplate

buildPrompt(d) == PromptTemplate \o d

\* const diff = getDiff(); const prompt = buildPrompt(diff);
GetDiff ==
  /\ pc = "diff"
  /\ \E ok \in Sample(env, "diffOk") :
       LET e1 == Learn(env, "diffOk", ok)
       IN IF ok
            THEN /\ diff' = sh(GitDiffOutput(staged))
                 /\ prompt' = buildPrompt(diff')
                 /\ Step("generate", <<"getDiff", "buildPrompt">>)
                 /\ env' = e1
                 /\ UNCHANGED out
            ELSE Crash(e1, <<"getDiff">>) /\ UNCHANGED <<diff, prompt>>
  /\ UNCHANGED <<inv, world, config, suggested, commitMsg, sent, gitCall>>

\* the generation call is made with the provider, the model and the prompt
Call == [sent EXCEPT !.prompt = prompt, !.made = TRUE]

\* catch (e) { spinner.fail(...); console.error(e.message); process.exit(1); }
GenerationFails(evs, msg) ==
  /\ Exit(1, <<"generate">> \o evs, {"GenerationFailed", msg})
  /\ UNCHANGED suggested

\* the message is shown and the run goes on to the edit prompt
GenerationDone(evs, text) ==
  /\ suggested' = text
  /\ Step("prompt", <<"generate">> \o evs)
  /\ out' = out \cup {"Suggested"}

\* lib/ollama.js generateCommitMessage: the HTTP attempt returns a message
OllamaHttp ==
  /\ pc = "generate"
  /\ sent.provider = "ollama"
  /\ \E h \in Sample(env, "http") :
       /\ h \in {"ok", "nofield"}
       /\ \E raw \in (IF h = "ok" THEN Sample(env, "raw") ELSE {<<>>}) :
            /\ env' = IF h = "ok" THEN Learn(Learn(env, "http", h), "raw", raw)
                                  ELSE Learn(env, "http", h)
            /\ GenerationDone(<<"httpPost">>, Normalize(raw))
  /\ sent' = Call
  /\ UNCHANGED <<inv, world, config, diff, prompt, commitMsg, gitCall>>

\* generateCommitMessage falling back to `ollama run` also when the HTTP response
\* carries no message
OllamaCli_AlsoOnEmpty ==
  /\ pc = "generate"
  /\ sent.provider = "ollama"
  /\ \E h \in Sample(env, "http"), c \in Sample(env, "cli") :
       /\ h \in {"fail", "badbody", "nofield"}
       /\ LET e1 == Learn(Learn(env, "http", h), "cli", c)
          IN IF c = "error"
               THEN /\ env' = e1
                    /\ GenerationFails(<<"httpPost", "ollamaRun">>, "FailedToCommunicate")
               ELSE \E raw \in Sample(e1, "raw") :
                      /\ env' = Learn(e1, "raw", raw)
                      /\ GenerationDone(<<"httpPost", "ollamaRun">>, Normalize(raw))
  /\ sent' = Call
  /\ UNCHANGED <<inv, world, config, diff, prompt, commitMsg, gitCall>>

\* lib/ollama.js generateCommitMessage: the try block throws (the POST fails, or
\* res.data is null or its `response` is not a string), and `ollama run` is used
OllamaCli ==
  /\ pc = "generate"
  /\ sent.provider = "ollama"
  /\ \E h \in Sample(env, "http"), c \in Sample(env, "cli") :
       /\ h \in {"fail", "badbody"}
       /\ LET e1 == Learn(Learn(env, "http", h), "cli", c)
          IN IF c = "error"
               THEN /\ env' = e1
                    /\ GenerationFails(<<"httpPost", "ollamaRun">>, "FailedToCommunicate")
               ELSE \E raw \in Sample(e1, "raw") :
                      /\ env' = Learn(e1, "raw", raw)
                      /\ GenerationDone(<<"httpPost", "ollamaRun">>, Normalize(raw))
  /\ sent' = Call
  /\ UNCHANGED <<inv, world, config, diff, prompt, commitMsg, gitCall>>

\* generateWithAIProvider with every unknown provider treated as ollama's HTTP success
CloudGenerate_NoCheck ==
  /\ pc = "generate"
  /\ sent.provider # "ollama"
  /\ \E raw \in Sample(env, "raw") :
       /\ env' = Learn(env, "raw", raw)
       /\ GenerationDone(<<"cloudCall">>, raw)
  /\ sent' = Call
  /\ UNCHANGED <<inv, world, config, diff, prompt, commitMsg, gitCall>>

\* lib/ai.js generateWithAIProvider: providerMap[provider] is undefined for an
\* unknown name ('Unsupported provider'), a property of Object.prototype for an
\* inherited name (the switch then throws 'Provider ... not implemented')
CloudGenerate ==
  /\ pc = "generate"
  /\ sent.provider # "ollama"
  /\ IF sent.provider \notin Providers
       THEN /\ GenerationFails(<<>>, IF sent.provider \in InheritedNames
                                       THEN "ProviderNotImplemented"
                                       ELSE "UnsupportedProvider")
            /\ UNCHANGED env
       ELSE \E c \in Sample(env, "cloud") :
              LET e1 == Learn(env, "cloud", c)
              IN IF c = "throw"
                   THEN env' = e1 /\ GenerationFails(<<"cloudCall">>, "ProviderError")
                   ELSE \E raw \in Sample(e1, "raw") :
                          /\ env' = Learn(e1, "raw", raw)
                          /\ GenerationDone(<<"cloudCall">>, raw)
  /\ sent' = Call
  /\ UNCHANGED <<inv, world, config, diff, prompt, commitMsg, gitCall>>

(***************************************************************************)
(* bin/gait: edit prompt, dry run, commit                                  *)
(***************************************************************************)
\* the input prompt returns its default for an empty entry
finalMsg(answer, sugg) == IF answer = <<>> THEN sugg ELSE answer

\* commitMsg = finalMsg.trim() || suggested
editedMessage(answer, sugg) ==
  IF Trim(finalMsg(answer, sugg)) # <<>> THEN Trim(finalMsg(answer, sugg)) ELSE sugg

\* the edit prompt with an empty entry treated as an abort
EditPrompt_BlankAborts ==
  /\ pc = "prompt"
  /\ ~args.n
  /\ \E a \in Sample(env, "answer") :
       /\ env' = Learn(env, "answer", a)
       /\ commitMsg' = editedMessage(a, suggested)
       /\ IF a = <<>> THEN Exit(0, <<"editPrompt">>, {})
                      ELSE Step("commit", <<"editPrompt">>) /\ UNCHANGED out
  /\ UNCHANGED <<inv, world, config, diff, prompt, suggested, sent, gitCall>>

\* if (!dryRun) { const { finalMsg } = await inquirer.prompt(...); ... }
EditPrompt ==
  /\ pc = "prompt"
  /\ ~args.n
  /\ \E a \in Sample(env, "answer") :
       /\ env' = Learn(env, "answer", a)
       /\ commitMsg' = editedMessage(a, suggested)
  /\ Step("commit", <<"editPrompt">>)
  /\ UNCHANGED <<inv, world, config, diff, prompt, suggested, sent, gitCall, out>>

\* the dry-run branch without its process.exit(0)
DryRun_GoesOn ==
  /\ pc = "prompt"
  /\ args.n
  /\ commitMsg' = suggested
  /\ Step("commit", <<>>)
  /\ out' = out \cup {"DryRun"}
  /\ UNCHANGED <<inv, world, config, diff, prompt, suggested, sent, gitCall, env>>

\* if (dryRun) { ...; process.exit(0); }
DryRun ==
  /\ pc = "prompt"
  /\ args.n
  /\ commitMsg' = suggested
  /\ Exit(0, <<>>, {"DryRun"})
  /\ UNCHANGED <<inv, world, config, diff, prompt, suggested, sent, gitCall, env>>

\* s.replace(/"/g, '\\"'): a backslash is put before every double quote
RECURSIVE escapeQuotes(_)
escapeQuotes(s) ==
  IF s = <<>> THEN <<>>
  ELSE (IF Head(s) = "dq" THEN <<"bs", "dq">> ELSE <<Head(s)>>) \o escapeQuotes(Tail(s))

\* `git commit -m "` and `" -m "`, character by character
GitCommitM == <<"git", "sp", "commit", "sp", "-m", "sp", "dq">>
NextM == <<"dq", "sp", "-m", "sp", "dq">>

\* commit(message) with only the first line of a message of several lines passed
commandLine_SubjectOnly(message) ==
  GitCommitM \o escapeQuotes(SplitNL(message)[1]) \o <<"dq">>

\* commit(message): the command line handed to sh()
commandLine(message) ==
  IF \E i \in 1..Len(message) : message[i] = "nl"
    THEN LET lines   == SplitNL(message)
             subject == lines[1]
             body    == JoinNL(Tail(lines))
         IN  GitCommitM \o escapeQuotes(subject) \o NextM \o escapeQuotes(body) \o <<"dq">>
    ELSE GitCommitM \o escapeQuotes(message) \o <<"dq">>

\* the word cur, if one was started, ends
EndWord(cur, started, words) == IF started THEN Append(words, cur) ELSE words

\* the command of the words read so far, if any, ends
EndCmd(words, cmds) == IF words = <<>> THEN cmds ELSE Append(cmds, words)

\* execSync(cmd) runs `/bin/sh -c cmd`: the shell splits the line into commands
\* at unquoted line breaks and each command into words at unquoted blanks.
\* Between double quotes a backslash quotes a following double quote or
\* backslash, joins lines before a line break and is an ordinary character
\* otherwise; outside quotes a backslash quotes the next character.  A line that
\* ends inside quotes is a syntax error and nothing is run (ok is FALSE).
RECURSIVE ShellScan(_, _, _, _, _, _)
ShellScan(cmd, inq, cur, started, words, cmds) ==
  IF cmd = <<>>
    THEN [ok |-> ~inq, cmds |-> EndCmd(EndWord(cur, started, words), cmds)]
    ELSE LET c    == Head(cmd)
             rest == Tail(cmd)
         IN IF inq
              THEN IF c = "dq" THEN ShellScan(rest, FALSE, cur, TRUE, words, cmds)
                   ELSE IF c = "bs" /\ rest # <<>> /\ Head(rest) \in {"dq", "bs"}
                     THEN ShellScan(Tail(rest), TRUE, Append(cur, Head(rest)), TRUE, words, cmds)
                   ELSE IF c = "bs" /\ rest # <<>> /\ Head(rest) = "nl"
                     THEN ShellScan(Tail(rest), TRUE, cur, TRUE, words, cmds)
                   ELSE ShellScan(rest, TRUE, Append(cur, c), TRUE, words, cmds)
              ELSE IF c = "dq" THEN ShellScan(rest, TRUE, cur, TRUE, words, cmds)
                   ELSE IF c = "bs" /\ rest # <<>> /\ Head(rest) = "nl"
                     THEN ShellScan(Tail(rest), FALSE, cur, started, words, cmds)
                   ELSE IF c = "bs" /\ rest # <<>>
                     THEN ShellScan(Tail(rest), FALSE, Append(cur, Head(rest)), TRUE, words, cmds)
                   ELSE IF c = "sp"
                     THEN ShellScan(rest, FALSE, <<>>, FALSE, EndWord(cur, started, words), cmds)
                   ELSE IF c = "nl"
                     THEN ShellScan(rest, FALSE, <<>>, FALSE, <<>>,
                                    EndCmd(EndWord(cur, started, words), cmds))
                   ELSE ShellScan(rest, FALSE, Append(cur, c), TRUE, words, cmds)

\* the commands the shell runs for a command line, each the sequence of its words
ShellParse(cmd) == ShellScan(cmd, FALSE, <<>>, FALSE, <<>>, <<>>)

\* `git commit` refuses an empty index and an empty message, and the shell runs
\* nothing for a line it cannot parse
CommitPossible(st, msg) == st # {} /\ msg # <<>> /\ ShellParse(commandLine(msg)).ok

\* try { commit(commitMsg); ... } catch (e) { ...; process.exit(1); }
Commit ==
  /\ pc = "commit"
  /\ committed' = commitMsg
  /\ gitCmd' = commandLine(commitMsg)
  /\ \E ok \in (IF CommitPossible(staged, commitMsg) THEN Sample(env, "commitOk") ELSE {FALSE}) :
       /\ env' = IF CommitPossible(staged, commitMsg) THEN Learn(env, "commitOk", ok) ELSE env
       /\ IF ok
            THEN /\ head' = staged
                 /\ staged' = {}
                 /\ Exit(0, <<"commit">>, {"Committed"})
            ELSE /\ Exit(1, <<"commit">>, {"CommitFailed"})
                 /\ UNCHANGED <<head, staged>>
  /\ UNCHANGED <<inv, cfgFile, unstaged, config, diff, prompt, suggested, commitMsg, sent>>

(***************************************************************************)
(* The second invocation                                                   *)
(***************************************************************************)
\* the options declared by both calls of minimist: -m, -n, -d, -h, -f
AcceptedByBoth(a) == ~a.i /\ ~a.s /\ a.l = Absent /\ a.M = Absent

\* `gait commit <flags>` is started in the environment `gait <flags>` was started in
\* (the two are compared for command lines of at most one option)
RunAsCommit ==
  /\ pc = "exit"
  /\ word = "" /\ ~first.done
  /\ AcceptedByBoth(args) /\ NumArgs(word, args) <= 1
  /\ first' = [done |-> TRUE, trace |-> trace, exitCode |-> exitCode, crashed |-> crashed]
  /\ word' = "commit"
  /\ cfgFile' = world0.cfg /\ staged' = world0.staged /\ unstaged' = world0.unstaged
  /\ pc' = "parse" /\ exitCode' = -1 /\ crashed' = FALSE
  /\ config' = NoConfig /\ diff' = None /\ prompt' = None /\ suggested' = None
  /\ commitMsg' = None /\ sent' = NoCall /\ committed' = None /\ gitCmd' = None
  /\ head' = {}
  /\ trace' = <<>> /\ out' = {}
  /\ UNCHANGED <<args, world0, env, listing, allFiles, external>>

\* the options a with one more option given, or none
OneMore(a) ==
  {a} \cup { [a EXCEPT !.h = TRUE], [a EXCEPT !.i = TRUE], [a EXCEPT !.f = TRUE],
             [a EXCEPT !.n = TRUE], [a EXCEPT !.d = TRUE], [a EXCEPT !.s = TRUE] }
      \cup { [a EXCEPT !.l = v] : v \in ListValues }
      \cup { [a EXCEPT !.M = v] : v \in SetModelValues }
      \cup { [a EXCEPT !.m = v] : v \in ModelValues }

\* the options of at most n arguments
RECURSIVE WithFlags(_)
WithFlags(n) ==
  IF n <= 0 THEN {NoFlags} ELSE UNION { OneMore(a) : a \in WithFlags(n - 1) }

\* the command lines of at most one argument
CommandLines ==
  { <<w, a>> : w \in {"", "commit"}, a \in WithFlags(1) } \cup { <<"init", NoFlags>> }

\* A second invocation, with any command line of at most one argument, after a
\* first run of at most one argument that left a config file Init does not start
\* with (after any other run the next invocation starts in a state of Init).
RunAgain ==
  /\ pc = "exit"
  /\ ~first.done /\ NumArgs(word, args) <= 1
  /\ world0.cfg = world0.start
  /\ cfgFile # world0.cfg /\ cfgFile \notin InitialConfigs
  /\ \E c \in CommandLines : word' = c[1] /\ args' = c[2]
  /\ world0' = [cfg |-> cfgFile, staged |-> staged, unstaged |-> unstaged,
                start |-> world0.start]
  /\ env' = <<>>
  /\ pc' = "parse" /\ exitCode' = -1 /\ crashed' = FALSE
  /\ config' = NoConfig /\ diff' = None /\ prompt' = None /\ suggested' = None
  /\ commitMsg' = None /\ sent' = NoCall /\ committed' = None /\ gitCmd' = None
  /\ head' = {}
  /\ trace' = <<>> /\ out' = {}
  /\ UNCHANGED <<cfgFile, staged, unstaged, first, listing, allFiles, external>>

(***************************************************************************)
(* getAllChangedFiles on its own                                           *)
(***************************************************************************)
\* lines of `git diff --cached --name-status`: a status letter and a path, or
\* for a rename the score, the old path and the new path
StagedLines ==
  { <<st, f>> : st \in {"M", "A", "D"}, f \in Files }
    \cup { <<"R100", x[1], x[2]>> : x \in { y \in Files \X Files : y[1] # y[2] } }

\* lines of `git diff --name-status`
UnstagedLines == { <<st, f>> : st \in {"M", "D"}, f \in Files }

PathsOfLine(line) == { line[i] : i \in 2..Len(line) }

\* the listings of at most MaxLines lines in which no path occurs in two lines
ListingsOver(lines) ==
  { l \in UNION { [1..n -> lines] : n \in 0..MaxLines } :
      \A i, j \in 1..Len(l) : i # j => PathsOfLine(l[i]) \cap PathsOfLine(l[j]) = {} }

ListInit ==
  /\ word = "" /\ args = NoFlags /\ cfgFile = CfgAbsent
  /\ staged = {} /\ unstaged = {}
  /\ world0 = [cfg |-> cfgFile, staged |-> staged, unstaged |-> unstaged, start |-> cfgFile]
  /\ env = <<>>
  /\ first = [done |-> FALSE, trace |-> <<>>, exitCode |-> -1, crashed |-> FALSE]
  /\ listing \in [staged : ListingsOver(StagedLines), unstaged : ListingsOver(UnstagedLines)]
  /\ allFiles = <<>> /\ external = 0
  /\ pc = "call" /\ exitCode = -1 /\ crashed = FALSE
  /\ config = NoConfig /\ diff = None /\ prompt = None /\ suggested = None
  /\ commitMsg = None /\ sent = NoCall /\ committed = None /\ gitCmd = None /\ head = {}
  /\ trace = <<>> /\ out = {}

\* const allFiles = getAllChangedFiles();
CallGetAllChangedFiles ==
  /\ pc = "call"
  /\ allFiles' = ChangedFiles(listing.staged, listing.unstaged)
  /\ pc' = "returned"
  /\ UNCHANGED <<word, args, world0, first, listing, external, world, data, exitCode,
                 crashed, trace, out, env>>

ListNext == CallGetAllChangedFiles

ListSpec == ListInit /\ [][ListNext]_vars

(***************************************************************************)
(* commit(message) on its own                                              *)
(***************************************************************************)
\* the characters of a message: an ordinary character, a blank, a line break, the
\* double quote and the backslash
MsgAlphabet == {"x", "sp", "nl", "dq", "bs"}

Messages == UNION { [1..n -> MsgAlphabet] : n \in 0..MaxMsgLen }

\* commit(commitMsg) is about to be called with any message, something being staged
CommitInit ==
  /\ word = "" /\ args = NoFlags /\ cfgFile = CfgOllama
  /\ staged = {"a"} /\ unstaged = {}
  /\ world0 = [cfg |-> cfgFile, staged |-> staged, unstaged |-> unstaged, start |-> cfgFile]
  /\ env = <<>>
  /\ first = [done |-> FALSE, trace |-> <<>>, exitCode |-> -1, crashed |-> FALSE]
  /\ listing = NoListing /\ allFiles = <<>> /\ external = 0
  /\ pc = "commit" /\ exitCode = -1 /\ crashed = FALSE
  /\ config = NoConfig /\ diff = None /\ prompt = None /\ suggested = None
  /\ commitMsg \in Messages
  /\ sent = NoCall /\ committed = None /\ gitCmd = None /\ head = {}
  /\ trace = <<>> /\ out = {}

CommitNext == Commit

CommitSpec == CommitInit /\ [][CommitNext]_vars

(***************************************************************************)
(* A run beside another process that uses the same repository              *)
(***************************************************************************)
\* another process runs `git add f` or `git reset f` while the run is in progress
ExternalGit ==
  /\ Running
  /\ external < MaxExternal
  /\ external' = external + 1
  /\ \E f \in Files :
       \/ /\ f \in unstaged
          /\ staged' = staged \cup {f} /\ unstaged' = unstaged \ {f}
       \/ /\ f \in staged
          /\ staged' = staged \ {f} /\ unstaged' = unstaged \cup {f}
  /\ UNCHANGED <<word, args, world0, first, listing, allFiles, cfgFile, head, data,
                 pc, exitCode, crashed, trace, out, env>>

\* `gait` without options, with a configured config file, in any index state
RaceInit ==
  /\ word = "" /\ args = NoFlags /\ cfgFile = CfgOllama
  /\ staged \in SUBSET Files /\ unstaged \in SUBSET Files
  /\ world0 = [cfg |-> cfgFile, staged |-> staged, unstaged |-> unstaged, start |-> cfgFile]
  /\ env = <<>>
  /\ first = [done |-> FALSE, trace |-> <<>>, exitCode |-> -1, crashed |-> FALSE]
  /\ listing = NoListing /\ allFiles = <<>> /\ external = 0
  /\ Fresh

RaceNext ==
  \/ ParseArgs \/ ShowHelp \/ OnboardSkip \/ CheckGit \/ CheckStaged \/ SelectSkip
  \/ LoadConfig \/ SetModelSkip \/ ListModelsSkip \/ DetermineProvider \/ ShowStaged
  \/ GetDiff \/ OllamaHttp \/ OllamaCli \/ EditPrompt \/ Commit
  \/ ExternalGit

RaceSpec == RaceInit /\ [][RaceNext]_vars

Next ==
  \/ ParseArgs \/ ShowHelp
  \/ OnboardSkip \/ OnboardNeedThrows \/ OnboardCreateFails \/ OnboardCheckFails
  \/ OnboardLoadThrows \/ OnboardKeep \/ OnboardConfigure
  \/ CheckGit \/ CheckStaged
  \/ SelectSkip \/ ListFilesFails \/ NoChangedFiles \/ SelectFiles
  \/ LoadConfig \/ SetModelSkip \/ SetModel \/ ListModelsSkip \/ ListModels
  \/ ModelOverride \/ DetermineProvider \/ ShowStaged
  \/ GetDiff \/ OllamaHttp \/ OllamaCli \/ CloudGenerate
  \/ EditPrompt \/ DryRun \/ Commit
  \/ RunAsCommit \/ RunAgain

Spec == Init /\ [][Next]_vars

(***************************************************************************)
(* Reading the trace                                                       *)
(***************************************************************************)
Has(ev) == \E i \in 1..Len(trace) : trace[i] = ev
Count(ev) == Cardinality({ i \in 1..Len(trace) : trace[i] = ev })
\* position of the first ev, 0 when there is none
Pos(ev) == IF Has(ev) THEN CHOOSE i \in 1..Len(trace) : trace[i] = ev /\ \A j \in 1..(i - 1) : trace[j] # ev
           ELSE 0
EndsWith(s, t) == Len(t) <= Len(s) /\ SubSeq(s, Len(s) - Len(t) + 1, Len(s)) = t
Observed(k, v) == k \in DOMAIN env /\ env[k] = v
MainFlow == word # "commit"
Ended == pc = "exit"

(***************************************************************************)
(* C1                                                                      *)
(***************************************************************************)
\* the git check of this run passed: git is available and the directory is a work tree
GitCheckPassed == Has("revParse") /\ Observed("gitVersionOk", TRUE) /\ Observed("revParseOk", TRUE)

\* nothing observed contradicts "started in a git work tree"
InWorkTree == ~Observed("gitVersionOk", FALSE) /\ ~Observed("revParseOk", FALSE)

C2_DryRunNeverCommits ==
  args.n =>
    /\ ~Has("commit") /\ ~Has("editPrompt") /\ pc # "commit"
    /\ (Ended /\ "Suggested" \in out) =>
         (exitCode = 0 /\ "DryRun" \in out /\ commitMsg = suggested /\ ~crashed)

C2_Witness ==
  /\ Ended /\ args.n /\ "Suggested" \in out /\ "DryRun" \in out /\ suggested # <<>>
  /\ exitCode = 0 /\ word = "commit"

AddEvents == { AddEv(f) : f \in Files }
StagingBefore(ev) == \A i \in 1..Len(trace) : trace[i] \in AddEvents => i < Pos(ev)

\* the read of the diff is in order: before the provider call, after any staging,
\* and the prompt of the call ends with the text that was read
DiffReadInOrder ==
  /\ sent.made => (Has("getDiff") /\ Pos("getDiff") < Pos("generate"))
  /\ Has("getDiff") => StagingBefore("getDiff")
  /\ sent.made => (EndsWith(sent.prompt, diff) /\ diff = sh(GitDiffOutput(staged \cup head)))

\* C4 as stated: in every run the staged diff is read exactly once, before the
\* provider call and after any interactive staging, and the prompt sent to the
\* provider ends with exactly that diff text.
C4_DiffReadOnceInEveryRun ==
  Ended => (Count("getDiff") = 1 /\ DiffReadInOrder)

\* C4 amended: no run reads the staged diff more than once, and every run that
\* calls the provider has read it exactly once, before the provider call and after
\* any interactive staging; the prompt sent to the provider ends with exactly that
\* diff text.
C4_DiffReadOnceBeforeCall ==
  /\ Count("getDiff") <= 1
  /\ sent.made => Count("getDiff") = 1
  /\ DiffReadInOrder

C4_Witness ==
  /\ sent.made /\ Has("add_b") /\ diff = <<"a", "nl", "b">>
  /\ sent.prompt = PromptTemplate \o diff

(***************************************************************************)
(* C5                                                                      *)
(***************************************************************************)
LastEvent == IF trace = <<>> THEN "" ELSE trace[Len(trace)]

\* at most one POST and one `ollama run`, the latter after the former
OllamaAttempts ==
  /\ Count("httpPost") <= 1 /\ Count("ollamaRun") <= 1
  /\ Has("ollamaRun") => (Has("httpPost") /\ Pos("httpPost") < Pos("ollamaRun"))

\* a CLI error ends the generation with 'Failed to communicate with Ollama' and
\* nothing is attempted after it
CliErrorThrows ==
  (Has("ollamaRun") /\ Observed("cli", "error"))
    => (Ended /\ "FailedToCommunicate" \in out /\ exitCode = 1 /\ LastEvent = "ollamaRun"
        /\ suggested = None)

\* C5 as stated: the Ollama backend makes at most one HTTP POST and at most one
\* CLI invocation per generation; the CLI is invoked only if the HTTP attempt
\* failed (never after an HTTP success); a CLI error throws 'Failed to communicate
\* with Ollama' with no further attempt.
C5_CliOnlyAfterHttpFailure ==
  /\ OllamaAttempts
  /\ Has("ollamaRun") => Observed("http", "fail")
  /\ CliErrorThrows

\* C5 amended: the Ollama backend makes at most one HTTP POST and at most one CLI
\* invocation per generation; the CLI is invoked only if the try block of the HTTP
\* attempt threw, that is when the POST failed or when it succeeded with a body
\* whose `response` cannot be trimmed, and never after a response from which a
\* message was returned; a CLI error throws 'Failed to communicate with Ollama'
\* with no further attempt.
C5_CliOnlyAfterTryBlockThrew ==
  /\ OllamaAttempts
  /\ Has("ollamaRun") => (Observed("http", "fail") \/ Observed("http", "badbody"))
  /\ (Has("httpPost") /\ (Observed("http", "ok") \/ Observed("http", "nofield")))
       => (~Has("ollamaRun") /\ "Suggested" \in out)
  /\ CliErrorThrows

C5_Witness ==
  /\ Has("ollamaRun") /\ Observed("http", "badbody") /\ Observed("cli", "ok")
  /\ "Suggested" \in out /\ suggested = <<"x", "nl", "y">>

(***************************************************************************)
(* C6                                                                      *)
(***************************************************************************)
\* the git commands, each with the key of its outcome and the event of its run
GitCommands ==
  { <<"gitVersionOk", "gitVersion">>, <<"revParseOk", "revParse">>,
    <<"nameStatusCachedOk", "nameStatusCached">>, <<"nameStatusOk", "nameStatus">>,
    <<"addOk_a", "add_a">>, <<"addOk_b", "add_b">>,
    <<"diffOk", "getDiff">>, <<"commitOk", "commit">> }

\* the command was run in this run and failed
GitFailed(c) == Has(c[2]) /\ Observed(c[1], FALSE)

\* C6: every git subprocess that fails (git missing, not a work tree, diff
\* failure, add failure, commit failure) is caught: the run prints a message and
\* ends with a non-zero exit status, and no later pipeline step is executed.
C6_GitFailuresCaught ==
  \A c \in GitCommands :
    GitFailed(c) =>
      /\ Ended /\ ~crashed /\ exitCode # 0
      /\ out \cap {"GitError", "CommitFailed"} # {}
      /\ LastEvent = c[2]

(***************************************************************************)
(* C7                                                                      *)
(***************************************************************************)
\* the events of the pipeline steps; "gitVersion" is the start of the git check
StepEvents ==
  {"parse", "loadConfig", "gitVersion", "buildPrompt", "generate", "editPrompt", "commit"}

IsStep == [e \in {"parse", "loadConfig", "onboard", "writeConfig", "askReconfigure",
                  "ollamaList", "selectModel", "saveConfig", "gitVersion", "revParse",
                  "diffQuiet", "nameStatusCached", "nameStatus", "selectFiles", "add_a",
                  "add_b", "getDiff", "buildPrompt", "generate", "httpPost", "ollamaRun",
                  "cloudCall", "editPrompt", "commit"} |-> e \in StepEvents]

Steps == SelectSeq(trace, LAMBDA e : IsStep[e])

\* the steps of a committing main-flow run whose onboarding check loaded the
\* config n times
MainSteps(n) ==
  <<"parse">> \o [i \in 1..n |-> "loadConfig"]
    \o <<"gitVersion", "loadConfig", "buildPrompt", "generate", "editPrompt", "commit">>

CommitSteps == <<"parse", "loadConfig", "buildPrompt", "generate", "editPrompt", "commit">>

IsEffect == [e \in DOMAIN IsStep |-> e \notin {"parse", "loadConfig", "buildPrompt"}]

\* onboarding, git checks, staging, provider call, prompt, commit, config writes
Effects(t) == SelectSeq(t, LAMBDA e : IsEffect[e])

\* C8: for every flag combination accepted by both, `gait commit <flags>` produces
\* the same sequence of external effects and the same exit status as
\* `gait <flags>`.
C8_CommitSameAsMain ==
  (first.done /\ Ended) => (Effects(trace) = Effects(first.trace) /\ exitCode = first.exitCode)

(***************************************************************************)
(* C9                                                                      *)
(***************************************************************************)
WellFormed(v) == Truthy(v) /\ Seg(v, 1) # "" /\ Seg(v, 2) # ""

Records(file, provider, model) ==
  /\ file.kind = "obj" /\ file.ap = provider
  /\ provider \in DOMAIN file.prov /\ file.prov[provider] = model

\* C9: a run with -M provider/model (both parts non-empty) ends with exit status 0,
\* the config file afterwards records activeProvider = provider and
\* providers[provider].model = model, and no provider call, edit prompt or commit
\* happens in that run.
C9_SetModelRecorded ==
  (Ended /\ WellFormed(args.M)) =>
    /\ exitCode = 0
    /\ Records(cfgFile, Seg(args.M, 1), Seg(args.M, 2))
    /\ ~sent.made /\ ~Has("editPrompt") /\ ~Has("commit")

(***************************************************************************)
(* C10                                                                     *)
(***************************************************************************)
\* C10: in a run with -m provider/model the provider call is made with that
\* provider and that model, whatever the config file holds, in the main flow and
\* in the `commit` sub-command alike.
C10_ModelOverrideUsed ==
  (sent.made /\ WellFormed(args.m)) =>
    (sent.provider = Seg(args.m, 1) /\ sent.model = Seg(args.m, 2))

(***************************************************************************)
(* C11                                                                     *)
(***************************************************************************)
\* the keys of a config object: activeProvider (ap), providers (prov) and the
\* legacy model key (legacy)
ConfigKeys == {"kind", "ap", "prov", "legacy"}

\* absent, or valid JSON whose top-level value is an object with the known keys
ValidConfigFile(file) == file.kind \in {"absent", "obj"} /\ DOMAIN file = ConfigKeys

\* C11: after any sequence of runs (onboarding, init, set-model, commit flows)
\* that starts from an absent or valid config file, the config file, if present,
\* is valid JSON whose top-level value is an object with keys only among
\* activeProvider, providers and the legacy model key.
C11_ConfigFileStaysValid ==
  ValidConfigFile(world0.start) => (ValidConfigFile(world0.cfg) /\ ValidConfigFile(cfgFile))

C11_Witness ==
  /\ Ended /\ world0.start.kind = "absent" /\ world0.cfg # world0.start
  /\ cfgFile # world0.cfg /\ cfgFile.kind = "obj" /\ "ModelSet" \in out

(***************************************************************************)
(* C12                                                                     *)
(***************************************************************************)
CloudProviders == Providers \ {"ollama"}

\* 'ollama' goes to the Ollama backend, a cloud provider to generateWithAIProvider
DispatchByName ==
  /\ Has("httpPost") => sent.provider = "ollama"
  /\ Has("cloudCall") => sent.provider \in CloudProviders
  /\ (sent.made /\ sent.provider = "ollama") => (Has("httpPost") /\ ~Has("cloudCall"))
  /\ (sent.made /\ sent.provider \in CloudProviders) => (Has("cloudCall") /\ ~Has("httpPost"))

\* the generation step failed: status 1, no edit prompt, no `git commit`
GenerationStepFailed ==
  /\ Ended /\ exitCode = 1 /\ "GenerationFailed" \in out /\ suggested = None
  /\ ~Has("httpPost") /\ ~Has("cloudCall") /\ ~Has("editPrompt") /\ ~Has("commit")

RawResponse ==
  IF Has("httpPost") /\ ~Has("ollamaRun") /\ Observed("http", "nofield") THEN <<>>
  ELSE IF "raw" \in DOMAIN env THEN env["raw"] ELSE <<>>

\* C13: for every backend (Ollama over HTTP, Ollama over CLI, each cloud
\* provider) the suggested message shown to the user is the normalized model
\* response: leading and trailing whitespace removed and every empty or
\* whitespace-only line removed, remaining lines in their original order; the HTTP
\* and CLI paths give the same result for the same raw response.
C13_SuggestionNormalized ==
  "Suggested" \in out => suggested = Normalize(RawResponse)

(***************************************************************************)
(* C14                                                                     *)
(***************************************************************************)
OnboardingFailed ==
  crashed \/ out \cap {"CreateConfigFailed", "FixIssues", "NoModels"} # {}

\* C14: `gait init` initializes the tool: the run executes the onboarding flow
\* and then exits with status 0 without performing the git check, a provider call
\* or a commit (unless onboarding itself ends the run with a failure).
C14_InitWordOnboards ==
  (word = "init" /\ ~OnboardingFailed) =>
    /\ ~Has("gitVersion") /\ ~sent.made /\ ~Has("commit")
    /\ Ended => (Has("onboard") /\ exitCode = 0)

(***************************************************************************)
(* C15                                                                     *)
(***************************************************************************)
\* C15: a main-flow run with -l / --list-models given without a value exits
\* without generating a message, prompting the user or invoking `git commit`, and
\* when it gets past the staged-changes check and the config load it prints the
\* available Ollama models.
C15_ListModelsWithoutValue ==
  (MainFlow /\ args.l = <<"">>) =>
    /\ ~sent.made /\ ~Has("editPrompt") /\ ~Has("commit")
    /\ (Ended /\ ~crashed /\ GitCheckPassed /\ world0.staged # {})
         => out \cap {"Models", "ListFailed"} # {}

(***************************************************************************)
(* C16                                                                     *)
(***************************************************************************)
\* C16: when the `ollama list` subprocess fails during a list-models run, the run
\* terminates with a printed message and a non-zero exit status.
C16_ListFailureExitsNonZero ==
  (Ended /\ Truthy(args.l) /\ LastEvent = "ollamaList" /\ Observed("listOk", FALSE))
    => ("ListFailed" \in out /\ exitCode # 0)

(***************************************************************************)
(* C17                                                                     *)
(***************************************************************************)
\* C17: a run with -h / --help (main flow or `gait commit -h`) prints the help
\* text and exits with status 0 before any onboarding, git subprocess, config read
\* or write, provider call or prompt takes place.
C17_HelpFirst ==
  args.h =>
    /\ pc \in {"parse", "help", "exit"}
    /\ trace \in {<<>>, <<"parse">>}
    /\ cfgFile = world0.cfg /\ staged = world0.staged /\ unstaged = world0.unstaged
    /\ config = NoConfig /\ ~sent.made
    /\ Ended => (exitCode = 0 /\ out = {"Help"} /\ ~crashed)

C17_Witness == Ended /\ args.h /\ word = "commit" /\ out = {"Help"} /\ exitCode = 0

(***************************************************************************)
(* C18                                                                     *)
(***************************************************************************)
\* C18: after the interactive file selection (-f / --files) finishes with a
\* non-empty selection, the set of files staged for the commit equals the set of
\* files the user selected: every selected file is staged and no file the user
\* left unselected is staged.
C18_StagedEqualsSelected ==
  (args.f /\ "Selected" \in out /\ "selection" \in DOMAIN env)
    => (staged \cup head) = env["selection"]

(***************************************************************************)
(* C19                                                                     *)
(***************************************************************************)
\* the paths getAllChangedFiles reported as 'unstaged' at the start of the run
ReportedUnstaged == world0.unstaged \ world0.staged

\* C19: in interactive mode `git add` is invoked only for files that the user
\* selected and that getAllChangedFiles reported as 'unstaged', once per such
\* file; when the user selects no file, or when there are no changed files, the
\* run exits with status 0 having invoked no `git add`, no provider call and no
\* `git commit`.
C19_AddOnlySelectedUnstaged ==
  /\ \A f \in Files :
       /\ Count(AddEv(f)) <= 1
       /\ Has(AddEv(f)) =>
            (args.f /\ Observed("selection", env["selection"])
             /\ f \in env["selection"] /\ f \in ReportedUnstaged)
       /\ (args.f /\ "Selected" \in out /\ f \in env["selection"] /\ f \in ReportedUnstaged)
            => Count(AddEv(f)) = 1
  /\ (args.f /\ Has("selectFiles") /\ Observed("selection", {}))
       => (Ended /\ "NoFilesSelected" \in out)
  /\ (out \cap {"NoFilesSelected", "NoChangedFiles"} # {})
       => /\ Ended /\ exitCode = 0 /\ ~sent.made /\ ~Has("commit")
          /\ \A f \in Files : ~Has(AddEv(f))

C19_Witness ==
  /\ args.f /\ "Selected" \in out /\ world0.staged = {"a"} /\ world0.unstaged = {"a", "b"}
  /\ env["selection"] = {"a", "b"} /\ Has("add_b") /\ ~Has("add_a") /\ Has("commit")

(***************************************************************************)
(* C20                                                                     *)
(***************************************************************************)
PathsOfListing(l) == UNION { PathsOfLine(l[i]) : i \in 1..Len(l) }

\* the path of parts[1] of every line, which is what the function reads
FirstPaths(l) == { l[i][2] : i \in 1..Len(l) }

\* C20: getAllChangedFiles returns every path at most once, all 'staged' entries
\* before all 'unstaged' entries; a path that appears in both
\* `git diff --cached --name-status` and `git diff --name-status` is returned once
\* with status 'staged', and every path of either listing is returned.
C20_EveryPathOnce ==
  pc = "returned" =>
    /\ \A i, j \in 1..Len(allFiles) : i # j => allFiles[i].path # allFiles[j].path
    /\ \A i, j \in 1..Len(allFiles) :
         (allFiles[i].status = "staged" /\ allFiles[j].status = "unstaged") => i < j
    /\ \A i \in 1..Len(allFiles) :
         allFiles[i].path \in FirstPaths(listing.staged) => allFiles[i].status = "staged"
    /\ PathsOfListing(listing.staged) \cup PathsOfListing(listing.unstaged)
         \subseteq { allFiles[i].path : i \in 1..Len(allFiles) }

(***************************************************************************)
(* C21                                                                     *)
(***************************************************************************)
\* what the user typed at the edit prompt of this run
Entry == env["answer"]

\* the provider is called once, before the edit prompt
NoCallAfterPrompt ==
  /\ Count("generate") = 1 /\ Pos("generate") < Pos("editPrompt")
  /\ \A i \in 1..Len(trace) :
       trace[i] \in {"httpPost", "ollamaRun", "cloudCall"} => i < Pos("editPrompt")

\* C21: in a non-dry-run the message passed to `git commit` is the
\* user's entry with surrounding whitespace trimmed when that is non-empty, and
\* otherwise (empty or whitespace-only entry) exactly the suggested message; the
\* provider is not called again after the edit prompt.
C21_EntryOrSuggestion ==
  (Has("commit") /\ Has("editPrompt")) =>
    /\ committed = (IF Trim(Entry) # <<>> THEN Trim(Entry) ELSE suggested)
    /\ NoCallAfterPrompt

(***************************************************************************)
(* C22                                                                     *)
(***************************************************************************)
HasNL(m) == \E i \in 1..Len(m) : m[i] = "nl"

\* the words of the one command the claim describes for message m
OneGitCommit(m) ==
  IF HasNL(m)
    THEN <<<<"git">>, <<"commit">>, <<"-m">>, SplitNL(m)[1],
           <<"-m">>, JoinNL(Tail(SplitNL(m)))>>
    ELSE <<<<"git">>, <<"commit">>, <<"-m">>, m>>

\* C22: commit(message) runs exactly one `git commit` command: for a message
\* without a newline it passes the whole message in a single -m argument; for a
\* message with a newline it passes the first line as the first -m argument and
\* all remaining lines, joined by newlines in their original order, as the second
\* -m argument, so that no line of the message is dropped or reordered.
C22_OneCommitCommand ==
  Has("commit") =>
    /\ ShellParse(gitCmd).ok
    /\ ShellParse(gitCmd).cmds = <<OneGitCommit(committed)>>

(***************************************************************************)
(* C23                                                                     *)
(***************************************************************************)
\* the texts commit() puts between double quotes for message m
QuotedParts(m) ==
  IF HasNL(m) THEN {SplitNL(m)[1], JoinNL(Tail(SplitNL(m)))} ELSE {m}

\* no double quote of s is left unescaped: each has a backslash before it that is
\* not itself taken by the character before
RECURSIVE NoBareQuote(_)
NoBareQuote(s) ==
  IF s = <<>> THEN TRUE
  ELSE IF Head(s) = "dq" THEN FALSE
  ELSE IF Head(s) = "bs" /\ Len(s) >= 2 THEN NoBareQuote(Tail(Tail(s)))
  ELSE NoBareQuote(Tail(s))

\* C23: for every commit message over an alphabet containing ordinary characters,
\* the double quote and the backslash, the escaping applied by commit() leaves no
\* unescaped double quote inside the quoted -m argument, so message content can
\* never end the quoted shell argument early.
C23_QuotesStayEscaped ==
  Has("commit") => \A part \in QuotedParts(committed) : NoBareQuote(escapeQuotes(part))

(***************************************************************************)
(* C24                                                                     *)
(***************************************************************************)
\* the backend returned an empty suggestion
EmptySuggestion == "Suggested" \in out /\ suggested = <<>>

\* C24: `git commit` is never invoked with an empty message: whenever the backend
\* yields an empty suggestion (HTTP response without a `response` field,
\* whitespace-only response, or an `ollama run` that exits non-zero with empty
\* stdout and no spawn error), the run stops with a non-zero exit before the
\* commit step.
C24_NoEmptyCommit ==
  /\ Has("commit") => committed # <<>>
  /\ EmptySuggestion =>
       /\ pc # "commit" /\ ~Has("editPrompt") /\ ~Has("commit")
       /\ Ended => exitCode # 0

(***************************************************************************)
(* C25                                                                     *)
(***************************************************************************)
\* the run came to the set-model step with a -M value that has a part missing
MalformedAtSetModel ==
  /\ MainFlow /\ Ended /\ ~crashed /\ ~args.h /\ ~args.f
  /\ Truthy(args.M) /\ ~WellFormed(args.M)
  /\ GitCheckPassed /\ world0.staged # {}

\* C25: a run with -M whose value is not of the form <provider>/<model> with both
\* parts non-empty (no slash, empty provider, or empty model) prints the format
\* error, exits with status 1 and leaves the config file unchanged; and for a
\* value with more than one slash the model persisted is the full text after the
\* first slash (here: the segments after the first).
C25_SetModelFormat ==
  /\ MalformedAtSetModel =>
       ("FormatError" \in out /\ exitCode = 1 /\ loadConfig(cfgFile) = config)
  /\ (MainFlow /\ "ModelSet" \in out /\ Observed("saveOk", TRUE) /\ Len(args.M) > 2)
       => <<cfgFile.prov[args.M[1]]>> = Tail(args.M)

(***************************************************************************)
(* C26                                                                     *)
(***************************************************************************)
\* { providers: { ollama: { model: 'llama3' } }, activeProvider: 'ollama' }
Defaults == CfgObj("ollama", "ollama" :> "llama3", "")

\* C26: loadConfig never throws and always returns a usable configuration object:
\* when the config file is absent, unreadable, not valid JSON, or valid JSON that
\* is not an object (null, array, number, string), the caller gets the defaults
\* {providers: {ollama: {model: 'llama3'}}, activeProvider: 'ollama'}, and no run
\* crashes because of the config file's content (a run crashes only when a git
\* command fails).
C26_LoadConfigDefaults ==
  /\ (pc \in {"setmodel", "override"} /\ cfgFile.kind # "obj") => config = Defaults
  /\ crashed => \E c \in GitCommands : GitFailed(c)

(***************************************************************************)
(* C27                                                                     *)
(***************************************************************************)
\* C27: the set-model run reports success ('Default model set to', exit status 0)
\* only if the new configuration was actually persisted: whenever writing the
\* config file fails, the run does not report success and exits non-zero.
C27_SuccessOnlyIfPersisted ==
  /\ "ModelSet" \in out =>
       (Observed("saveOk", TRUE) /\ Records(cfgFile, Seg(args.M, 1), Seg(args.M, 2)))
  /\ (Ended /\ Truthy(args.M) /\ LastEvent = "saveConfig" /\ Observed("saveOk", FALSE))
       => ("ModelSet" \notin out /\ exitCode # 0)

(***************************************************************************)
(* C28                                                                     *)
(***************************************************************************)
\* this run wrote the config file in its set-model step or at the end of onboarding
Persisted ==
  out \cap {"ModelSet", "ConfigurationSaved"} # {} /\ Observed("saveOk", TRUE)

\* C28: after any sequence of set-model and onboarding runs, the activeProvider
\* persisted in the config file is one of the supported backends {ollama, openai,
\* anthropic, google, cohere, mistral}, and providers[activeProvider].model is a
\* non-empty string.
C28_PersistedProviderSupported ==
  Persisted =>
    /\ cfgFile.kind = "obj" /\ cfgFile.ap \in Providers
    /\ cfgFile.ap \in DOMAIN cfgFile.prov /\ cfgFile.prov[cfgFile.ap] # ""

(***************************************************************************)
(* C29                                                                     *)
(***************************************************************************)
\* C29: when another process may stage or unstage files while a run is in
\* progress, the changes recorded by the run's `git commit` are exactly the staged
\* changes of the diff from which the commit message was generated: no
\* interleaving of an external `git add` / `git reset` between the diff read, the
\* provider call, the edit prompt and the commit makes the committed content
\* differ from the described content.
C29_CommitsWhatWasDescribed ==
  "Committed" \in out => diff = sh(GitDiffOutput(head))

(***************************************************************************)
(* C30                                                                     *)
(***************************************************************************)
\* runOnboarding() has just returned to main(): the user kept the configuration,
\* or selected a model and saveConfig was called
OnboardingReturned ==
  /\ Has("onboard") /\ ~Has("gitVersion")
  /\ LastEvent \in {"askReconfigure", "saveConfig"}

\* one of the two Ollama checks of this run's onboarding failed
OllamaCheckFailed ==
  Has("onboard") /\ (Observed("installed", FALSE) \/ Observed("running", FALSE))

\* C30: when runOnboarding returns normally (rather than exiting the process),
\* needsOnboarding() is false afterwards: the config file exists and names an
\* active provider that has a model, so a following run does not start onboarding
\* again; and when either Ollama check (installed, running) fails, onboarding
\* exits with status 1 without writing a model selection.
C30_OnboardingSettles ==
  /\ OnboardingReturned =>
       /\ cfgFile.kind # "absent" /\ Configured(loadConfig(cfgFile))
       /\ ~needsOnboarding(cfgFile)
  /\ OllamaCheckFailed =>
       /\ Ended /\ exitCode = 1 /\ "FixIssues" \in out
       /\ ~Has("selectModel") /\ ~Has("saveConfig")

====
